---- MODULE Spec2Model ----
(***************************************************************************)
(* A model of smart_pointers.h: SharedPtr, WeakPtr, the two control-block  *)
(* variants and EnableSharedFromThis.  The program is single-threaded, so  *)
(* every public operation is one atomic action; what an operation calls    *)
(* (a temporary's destructor, useDeleter, the payload's destructor and the *)
(* destructor of the weak pointer the payload embeds) is part of it.       *)
(***************************************************************************)
EXTENDS Integers, Sequences, FiniteSets, TLC

\* Bounds of the model.
NS == 2            \* SharedPtr variables of the client program
NW == 2            \* WeakPtr variables of the client program
MaxBlocks == 2     \* control blocks the allocator hands out
MaxCleanups == 2   \* payload cleanups a block may see before lock() on it is cut off

Null == 0
Blocks == 1..MaxBlocks
StrongIds == 1..NS
WeakIds == 1..NW

VARIABLES
    alloc,       \* alloc[b]: "unused", "live" or "freed" storage of control block b
    kind,        \* kind[b]: "none", "regular" (ControlBlockRegular) or "makeshared"
    shared_cnt,  \* BaseControlBlock::shared_cnt
    weak_cnt,    \* BaseControlBlock::weak_cnt
    cbptr,       \* ControlBlockRegular::ptr, or the address of ControlBlockMakeShared::data
    esft,        \* esft[b]: the payload type inherits EnableSharedFromThis
    payload,     \* payload[b]: "none" (null adopted), "alive" or "destroyed"
    wptr,        \* wptr[b]: EnableSharedFromThis::wptr of the payload of block b
    log,         \* log[b]: the calls of useDeleter, Destroy, Deallocate made on block b
    fault,       \* the process has been stopped by an invalid memory access
    sp,          \* sp[i]: the i-th SharedPtr variable
    wp,          \* wp[i]: the i-th WeakPtr variable
    last,        \* the operation executed last, with the heap it found
    watch        \* the operations that last records

heapVars == <<alloc, kind, shared_cnt, weak_cnt, cbptr, esft, payload, wptr, log, fault>>
vars == <<alloc, kind, shared_cnt, weak_cnt, cbptr, esft, payload, wptr, log, fault,
          sp, wp, last, watch>>

----------------------------------------------------------------------------
\* Handles: the two fields of a SharedPtr or a WeakPtr.  A payload pointer is
\* the identity of the object it points to; the payload of block b is object b.
\* A variable that holds no object is the same as one holding an empty pointer:
\* both destructors leave cb and ptr null and do nothing on a null cb.  Static
\* types are not part of the state: a converting operation is offered wherever
\* the plain one is.
NullPtr == Null
PtrTo(b) == b

Handle(c, p) == [cb |-> c, ptr |-> p]
Empty == Handle(Null, NullPtr)

\* static_cast<T*>(other.ptr): a pointer to the Base subobject of the same object
StaticCastPtr(p) == p
\* static_cast<BaseControlBlock*>(other.cb)
StaticCastCb(c) == c

\* The heap as one value, so that the steps of an operation compose.
Heap == [alloc |-> alloc, kind |-> kind, shared_cnt |-> shared_cnt,
         weak_cnt |-> weak_cnt, cbptr |-> cbptr, esft |-> esft,
         payload |-> payload, wptr |-> wptr, log |-> log, fault |-> fault]

SetHeap(H) ==
    /\ alloc' = H.alloc
    /\ kind' = H.kind
    /\ shared_cnt' = H.shared_cnt
    /\ weak_cnt' = H.weak_cnt
    /\ cbptr' = H.cbptr
    /\ esft' = H.esft
    /\ payload' = H.payload
    /\ wptr' = H.wptr
    /\ log' = H.log
    /\ fault' = H.fault

\* Run step F on every outcome of the steps before it; a faulted process runs nothing.
Bind(S, F(_)) == UNION {IF H.fault THEN {H} ELSE F(H) : H \in S}

Faulted(H) == [H EXCEPT !.fault = TRUE]

\* A call on block b joins its log, with the references counted at the call:
\* the owners for a cleanup call, owners and observers for the others.
Event(H, b, e) ==
    [H EXCEPT !.log[b] =
        Append(@, [ev |-> e,
                   refs |-> IF e \in {"useDeleter", "Destroy"} THEN H.shared_cnt[b]
                            ELSE H.shared_cnt[b] + H.weak_cnt[b]])]

\* An access through a null pointer: the process is stopped.
NullDeref(H) == {Faulted(H)}

\* An access to the storage of block b.  Freed storage either stops the process
\* or still holds what was stored last.
Access(H, b) ==
    IF H.alloc[b] = "live" THEN {H} ELSE {Faulted(H), Event(H, b, "access")}

----------------------------------------------------------------------------
\* WeakPtr::~WeakPtr and the control block's virtual methods.  The payload of an
\* EnableSharedFromThis type embeds a WeakPtr, so destroying a payload runs
\* ~WeakPtr, which may call Deallocate: the three are defined together.

\* ControlBlockRegular::Deallocate / ControlBlockMakeShared::Deallocate
Deallocate(H, b) ==
    LET G == Event(H, b, "Deallocate")
    IN  IF H.alloc[b] = "live"
        THEN {[G EXCEPT !.alloc[b] = "freed"]}
        ELSE {Faulted(G), G}      \* the storage is released a second time

WeakPtrDtor(H, h) ==
    IF h.cb = Null THEN {H}
    ELSE LET b == h.cb
             dec(G) == {[G EXCEPT !.weak_cnt[b] = @ - 1]}
             fin(G) == IF G.weak_cnt[b] = 0 /\ G.shared_cnt[b] = 0
                       THEN Deallocate(G, b) ELSE {G}
         IN  Bind(Bind(Access(H, b), dec), fin)

\* The destructor of the payload object of block b, run by the deleter
\* (delete ptr) or by allocator_traits::destroy(&data).
PayloadDtor(H, b) ==
    CASE H.payload[b] = "none" -> {H}
      [] H.payload[b] = "alive" ->
            LET G == [H EXCEPT !.payload[b] = "destroyed"]
                clr(K) == {[K EXCEPT !.wptr[b] = Empty]}
            IN  IF H.esft[b] THEN Bind(WeakPtrDtor(G, G.wptr[b]), clr) ELSE {G}
      [] OTHER -> {Faulted(H), H}   \* an object destroyed before is destroyed again

UseDeleter(H, b) ==
    LET run(G) == IF G.kind[b] = "regular" THEN PayloadDtor(G, b) ELSE {G}
    IN  Bind(Access(Event(H, b, "useDeleter"), b), run)

Destroy(H, b) ==
    LET run(G) == IF G.kind[b] = "makeshared" THEN PayloadDtor(G, b) ELSE {G}
    IN  Bind(Access(Event(H, b, "Destroy"), b), run)

SharedPtrDtor(H, h) ==
    IF h.cb = Null THEN {H}
    ELSE LET b == h.cb
             dec(G) == {[G EXCEPT !.shared_cnt[b] = @ - 1]}
             del(G) == UseDeleter(G, b)
             des(G) == Destroy(G, b)
             rd(G)  == Access(G, b)
             fin(G) == IF G.weak_cnt[b] = 0 THEN Deallocate(G, b) ELSE {G}
             zero(G) == IF G.shared_cnt[b] = 0
                        THEN Bind(Bind(Bind(del(G), des), rd), fin)
                        ELSE {G}
         IN  Bind(Bind(Access(H, b), dec), zero)

----------------------------------------------------------------------------
\* Constructors.  Each yields the outcomes [heap, val, src]: the heap, the
\* object constructed and what the constructor leaves in its argument.

Outcomes(S, v, o) == {[heap |-> G, val |-> v, src |-> o] : G \in S}

\* ++cb->shared_cnt, ++cb->weak_cnt, --cb->shared_cnt
IncShared(H, b) ==
    LET inc(G) == {[G EXCEPT !.shared_cnt[b] = @ + 1]} IN Bind(Access(H, b), inc)
IncWeak(H, b) ==
    LET inc(G) == {[G EXCEPT !.weak_cnt[b] = @ + 1]} IN Bind(Access(H, b), inc)
DecShared(H, b) ==
    LET dec(G) == {[G EXCEPT !.shared_cnt[b] = @ - 1]} IN Bind(Access(H, b), dec)

\* A copy constructor that forgets ++cb->shared_cnt.
SharedPtrCopyUncounted(H, other) ==
    Outcomes({H}, Handle(other.cb, other.ptr), other)

\* SharedPtr(const SharedPtr&)
SharedPtrCopy(H, other) ==
    Outcomes(IF other.cb # Null THEN IncShared(H, other.cb) ELSE {H},
             Handle(other.cb, other.ptr), other)

\* A move constructor that forgets to null its argument.
SharedPtrMoveKeepsSource(H, other) ==
    Outcomes({H}, Handle(other.cb, other.ptr), other)

\* SharedPtr(SharedPtr&&)
SharedPtrMove(H, other) ==
    Outcomes({H}, Handle(other.cb, other.ptr), Empty)

\* A converting constructor that takes the block and forgets the payload pointer.
SharedPtrConvCopyNoPtr(H, other) ==
    Outcomes(IF StaticCastCb(other.cb) # Null THEN IncShared(H, other.cb) ELSE {H},
             Handle(StaticCastCb(other.cb), NullPtr), other)

\* SharedPtr(const SharedPtr<Derived>&)
SharedPtrConvCopy(H, other) ==
    Outcomes(IF StaticCastCb(other.cb) # Null THEN IncShared(H, other.cb) ELSE {H},
             Handle(StaticCastCb(other.cb), StaticCastPtr(other.ptr)), other)

\* SharedPtr(SharedPtr<Derived>&&)
SharedPtrConvMove(H, other) ==
    Outcomes({H}, Handle(StaticCastCb(other.cb), StaticCastPtr(other.ptr)),
             Empty)

\* A promotion that forgets ++cb->shared_cnt.
SharedPtrFromWeakUncounted(H, weak) ==
    Outcomes(IF weak.cb = Null THEN NullDeref(H) ELSE Access(H, weak.cb),
             Handle(weak.cb, weak.ptr), weak)

\* SharedPtr(const WeakPtr<T>&), private: the count is incremented unconditionally
SharedPtrFromWeak(H, weak) ==
    Outcomes(IF weak.cb = Null THEN NullDeref(H) ELSE IncShared(H, weak.cb),
             Handle(weak.cb, weak.ptr), weak)

\* SharedPtr(ControlBlockMakeShared<Alloc>*), private
SharedPtrFromBlock(H, b) == Outcomes({H}, Handle(b, H.cbptr[b]), Empty)

\* A WeakPtr constructor that forgets ++cb->weak_cnt.
WeakPtrFromSharedUncounted(H, shared) ==
    Outcomes(IF shared.cb = Null THEN NullDeref(H) ELSE Access(H, shared.cb),
             Handle(shared.cb, shared.ptr), shared)

\* WeakPtr(const SharedPtr<T>&)
WeakPtrFromShared(H, shared) ==
    Outcomes(IF shared.cb = Null THEN NullDeref(H) ELSE IncWeak(H, shared.cb),
             Handle(shared.cb, shared.ptr), shared)

\* WeakPtr(SharedPtr<T>&&)
WeakPtrFromSharedMove(H, shared) ==
    LET inc(G) == IncWeak(G, shared.cb)
    IN  Outcomes(IF shared.cb = Null THEN NullDeref(H)
                 ELSE Bind(DecShared(H, shared.cb), inc),
                 Handle(shared.cb, shared.ptr), Empty)

\* WeakPtr(const SharedPtr<Derived>&)
WeakPtrFromSharedConv(H, shared) ==
    Outcomes(IF StaticCastCb(shared.cb) = Null THEN NullDeref(H)
             ELSE IncWeak(H, shared.cb),
             Handle(StaticCastCb(shared.cb), StaticCastPtr(shared.ptr)), shared)

\* WeakPtr(SharedPtr<Derived>&&)
WeakPtrFromSharedConvMove(H, shared) ==
    LET inc(G) == IncWeak(G, shared.cb)
    IN  Outcomes(IF StaticCastCb(shared.cb) = Null THEN NullDeref(H)
                 ELSE Bind(DecShared(H, shared.cb), inc),
                 Handle(StaticCastCb(shared.cb), StaticCastPtr(shared.ptr)),
                 Empty)

\* WeakPtr(const WeakPtr&)
WeakPtrCopy(H, other) ==
    Outcomes(IF other.cb = Null THEN NullDeref(H) ELSE IncWeak(H, other.cb),
             Handle(other.cb, other.ptr), other)

\* WeakPtr(WeakPtr&&)
WeakPtrMove(H, other) ==
    Outcomes({H}, Handle(other.cb, other.ptr), Empty)

\* WeakPtr(const WeakPtr<Derived>&)
WeakPtrConvCopy(H, shared) ==
    Outcomes(IF StaticCastCb(shared.cb) = Null THEN NullDeref(H)
             ELSE IncWeak(H, shared.cb),
             Handle(StaticCastCb(shared.cb), StaticCastPtr(shared.ptr)), shared)

\* WeakPtr(WeakPtr<Derived>&&): increments weak_cnt and leaves its argument as it was
WeakPtrConvMove(H, shared) ==
    Outcomes(IF StaticCastCb(shared.cb) = Null THEN NullDeref(H)
             ELSE IncWeak(H, shared.cb),
             Handle(StaticCastCb(shared.cb), StaticCastPtr(shared.ptr)), shared)

----------------------------------------------------------------------------
\* swap, assignment, reset and the factories.

\* SharedPtr::swap: std::swap of cb and of ptr
SharedPtrSwap(a, b) ==
    <<[a EXCEPT !.cb = b.cb, !.ptr = b.ptr], [b EXCEPT !.cb = a.cb, !.ptr = a.ptr]>>

\* WeakPtr::swap
WeakPtrSwap(a, b) ==
    <<[a EXCEPT !.cb = b.cb, !.ptr = b.ptr], [b EXCEPT !.cb = a.cb, !.ptr = a.ptr]>>

\* "swap(tmp); return *this;" returning a reference: tmp dies with what *this held.
SharedSwapDrop(Rs, this) ==
    UNION {IF r.heap.fault THEN {r}
           ELSE LET sw == SharedPtrSwap(this, r.val)
                IN  Outcomes(SharedPtrDtor(r.heap, sw[2]), sw[1], r.src) : r \in Rs}

WeakSwapDrop(Rs, this) ==
    UNION {IF r.heap.fault THEN {r}
           ELSE LET sw == WeakPtrSwap(this, r.val)
                IN  Outcomes(WeakPtrDtor(r.heap, sw[2]), sw[1], r.src) : r \in Rs}

\* "swap(tmp); return *this;" returning a WeakPtr by value: the result is copied
\* from *this, tmp dies, and the copy dies at the end of the full expression.
WeakSwapDropReturn(Rs, this) ==
    UNION {IF r.heap.fault THEN {r}
           ELSE LET sw == WeakPtrSwap(this, r.val)
                    ret == {c.heap : c \in WeakPtrCopy(r.heap, sw[1])}
                    dtmp(G) == WeakPtrDtor(G, sw[2])
                    dret(G) == WeakPtrDtor(G, sw[1])
                IN  Outcomes(Bind(Bind(ret, dtmp), dret), sw[1], r.src) : r \in Rs}

\* WeakPtr& operator=(const WeakPtr&): no self-assignment test
WeakPtrAssignCopy(H, this, other) == WeakSwapDrop(WeakPtrCopy(H, other), this)

\* WeakPtr& operator=(WeakPtr&&); same: &other == this, so tmp's constructor
\* has emptied *this before the swap
WeakPtrAssignMove(H, this, other, same) ==
    WeakSwapDrop(WeakPtrMove(H, other), IF same THEN Empty ELSE this)

\* WeakPtr operator=(const SharedPtr<Derived>&), chosen for Derived = T as well;
\* conv: Derived is not T, so tmp is made by the converting constructor
WeakPtrAssignShared(H, this, shared, conv) ==
    WeakSwapDropReturn(IF ~conv THEN WeakPtrFromShared(H, shared)
                       ELSE WeakPtrFromSharedConv(H, shared), this)

\* WeakPtr operator=(SharedPtr<Derived>&&), chosen for Derived = T as well
WeakPtrAssignSharedMove(H, this, shared, conv) ==
    WeakSwapDropReturn(IF ~conv THEN WeakPtrFromSharedMove(H, shared)
                       ELSE WeakPtrFromSharedConvMove(H, shared), this)

\* WeakPtr operator=(const WeakPtr<Derived>&)
WeakPtrAssignConvCopy(H, this, shared) ==
    WeakSwapDropReturn(WeakPtrConvCopy(H, shared), this)

\* WeakPtr operator=(WeakPtr<Derived>&&)
WeakPtrAssignConvMove(H, this, shared) ==
    WeakSwapDropReturn(WeakPtrConvMove(H, shared), this)

\* The block the allocator hands out next.
HasFree(H) == \E b \in Blocks : H.alloc[b] = "unused"
NewBlock(H) == CHOOSE b \in Blocks :
                   H.alloc[b] = "unused" /\ \A c \in 1..(b - 1) : H.alloc[c] # "unused"

\* BaseControlBlock(1, 0) in fresh storage, as both control blocks construct it.
BaseControlBlock(H, b, k, p, e) ==
    [H EXCEPT !.alloc[b] = "live", !.kind[b] = k, !.shared_cnt[b] = 1,
              !.weak_cnt[b] = 0, !.cbptr[b] = p, !.esft[b] = e,
              !.payload[b] = IF p = NullPtr THEN "none" ELSE "alive",
              !.wptr[b] = Empty]

\* An adopting constructor that forgets "ptr->wptr = *this".
SharedPtrAdoptNoWptr(H, p, e) ==
    LET b == NewBlock(H)
    IN  Outcomes({BaseControlBlock(H, b, "regular", p, e)}, Handle(b, p), Empty)

\* SharedPtr(T* ptr, Deleter, Alloc): a ControlBlockRegular for ptr, and for an
\* EnableSharedFromThis type "ptr->wptr = *this".
SharedPtrAdopt(H, p, e) ==
    LET b == NewBlock(H)
        G == BaseControlBlock(H, b, "regular", p, e)
        this == Handle(b, p)
    IN  IF ~e THEN Outcomes({G}, this, Empty)
        ELSE IF p = NullPtr THEN Outcomes(NullDeref(G), this, Empty)
        ELSE {[heap |-> IF r.heap.fault THEN r.heap
                        ELSE [r.heap EXCEPT !.wptr[b] = r.val],
               val |-> this, src |-> Empty]
              : r \in WeakPtrAssignShared(G, G.wptr[b], this, FALSE)}

\* allocateShared: one ControlBlockMakeShared holding the payload
AllocateShared(H, e) ==
    LET b == NewBlock(H)
        G == BaseControlBlock(H, b, "makeshared", PtrTo(b), e)
    IN  SharedPtrFromBlock(G, b)

\* makeShared
MakeShared(H, e) == AllocateShared(H, e)

\* SharedPtr& operator=(const SharedPtr&); same: this == &other
SharedPtrAssignCopy(H, this, other, same) ==
    IF same THEN Outcomes({H}, this, other)
    ELSE SharedSwapDrop(SharedPtrCopy(H, other), this)

\* SharedPtr& operator=(SharedPtr&&)
SharedPtrAssignMove(H, this, other, same) ==
    IF same THEN Outcomes({H}, this, other)
    ELSE SharedSwapDrop(SharedPtrMove(H, other), this)

\* SharedPtr& operator=(const SharedPtr<Derived>&): objects of two types are two objects
SharedPtrAssignConvCopy(H, this, other) ==
    SharedSwapDrop(SharedPtrConvCopy(H, other), this)

\* SharedPtr& operator=(SharedPtr<Derived>&&)
SharedPtrAssignConvMove(H, this, other) ==
    SharedSwapDrop(SharedPtrConvMove(H, other), this)

\* A reset() that nulls the pointer and releases nothing.
SharedPtrResetLeaks(H, this) ==
    Outcomes({H}, Empty, Empty)

\* reset()
SharedPtrReset(H, this) ==
    SharedSwapDrop(Outcomes({H}, Empty, Empty), this)

\* reset(T* ptr, Deleter, Alloc)
SharedPtrResetPtr(H, this, p, e) ==
    SharedSwapDrop(SharedPtrAdopt(H, p, e), this)

\* use_count(), of SharedPtr and of WeakPtr: the count is read through cb unchecked
UseCount(h) == shared_cnt[h.cb]

\* WeakPtr::expired
Expired(h) == IF h.cb = Null THEN TRUE ELSE shared_cnt[h.cb] = 0

\* WeakPtr::lock
WeakPtrLock(H, weak) == SharedPtrFromWeak(H, weak)

\* EnableSharedFromThis::shared_from_this, on an object whose wptr is w
SharedFromThis(H, w) == WeakPtrLock(H, w)

\* get()
Get(h) == h.ptr

----------------------------------------------------------------------------
\* The client program: NS SharedPtr and NW WeakPtr variables, on which every
\* operation of the interface may be called in any order.

NoLog == [b \in Blocks |-> <<>>]

\* What is recorded of the operation executed last, when it is one of those
\* watched: its name, the variable it read (src) and the one it wrote (dst), the
\* block (cb) and payload pointer (p0) of its argument, the block its target
\* referenced (old), and the heap it found: the counts, the length of the logs
\* and the state of the storage.
\* With Brief among the watched names the record is the name alone.
Brief == "brief"

Idle == [op |-> "none", src |-> 0, dst |-> 0, cb |-> Null, p0 |-> NullPtr, old |-> Null,
         sc0 |-> [b \in Blocks |-> 0], wc0 |-> [b \in Blocks |-> 0],
         ln0 |-> [b \in Blocks |-> 0], al0 |-> [b \in Blocks |-> "unused"]]

Last(op, src, dst, h, o) ==
    IF op \notin watch THEN Idle
    ELSE IF Brief \in watch THEN [Idle EXCEPT !.op = op]
    ELSE [op |-> op, src |-> src, dst |-> dst, cb |-> h.cb, p0 |-> h.ptr, old |-> o.cb,
          sc0 |-> shared_cnt, wc0 |-> weak_cnt,
          ln0 |-> [b \in Blocks |-> Len(log[b])], al0 |-> alloc]

\* The state after construction of the program, observing the operations in W.
InitWatching(W) ==
    /\ alloc = [b \in Blocks |-> "unused"]
    /\ kind = [b \in Blocks |-> "none"]
    /\ shared_cnt = [b \in Blocks |-> 0]
    /\ weak_cnt = [b \in Blocks |-> 0]
    /\ cbptr = [b \in Blocks |-> NullPtr]
    /\ esft = [b \in Blocks |-> FALSE]
    /\ payload = [b \in Blocks |-> "none"]
    /\ wptr = [b \in Blocks |-> Empty]
    /\ log = NoLog
    /\ fault = FALSE
    /\ sp = [i \in StrongIds |-> Empty]
    /\ wp = [i \in WeakIds |-> Empty]
    /\ last = Idle
    /\ watch = W

Init == InitWatching({})

\* The operation ends with outcome r; a stopped process assigns nothing further.
Done(r, s2, w2, l) ==
    /\ SetHeap(r.heap)
    /\ sp' = IF r.heap.fault THEN sp ELSE s2
    /\ wp' = IF r.heap.fault THEN wp ELSE w2
    /\ last' = l
    /\ UNCHANGED watch

Cleanups(b) == Cardinality({k \in 1..Len(log[b]) : log[b][k].ev = "useDeleter"})

\* The variable in which a pointer is constructed next: the first that holds
\* nothing (which of the unused variables is taken makes no difference).
FreshS(j) == sp[j] = Empty /\ \A k \in 1..(j - 1) : sp[k] # Empty
FreshW(j) == wp[j] = Empty /\ \A k \in 1..(j - 1) : wp[k] # Empty

\* SharedPtr<T> s;
SharedDefault(j) ==
    /\ ~fault /\ FreshS(j)
    /\ Done([heap |-> Heap], [sp EXCEPT ![j] = Empty], wp,
            Last("SharedDefault", 0, j, Empty, Empty))

\* SharedPtr<T> s(p);  p is null or a new object
Adopt(j, isNull, e) ==
    /\ ~fault /\ FreshS(j) /\ HasFree(Heap)
    /\ LET p == IF isNull THEN NullPtr ELSE PtrTo(NewBlock(Heap))
       IN  \E r \in SharedPtrAdopt(Heap, p, e) :
               Done(r, [sp EXCEPT ![j] = r.val], wp, Last("Adopt", 0, j, Empty, Empty))

\* auto s = allocateShared<T>(alloc, args...);
AllocShared(j, e) ==
    /\ ~fault /\ FreshS(j) /\ HasFree(Heap)
    /\ \E r \in AllocateShared(Heap, e) :
           Done(r, [sp EXCEPT ![j] = r.val], wp, Last("AllocShared", 0, j, Empty, Empty))

\* auto s = makeShared<T>(args...);
MkShared(j, e) ==
    /\ ~fault /\ FreshS(j) /\ HasFree(Heap)
    /\ \E r \in MakeShared(Heap, e) :
           Done(r, [sp EXCEPT ![j] = r.val], wp, Last("MkShared", 0, j, Empty, Empty))

\* SharedPtr<T> sj(si);
CopyShared(i, j) ==
    /\ ~fault /\ i # j /\ FreshS(j)
    /\ \E r \in SharedPtrCopy(Heap, sp[i]) :
           Done(r, [sp EXCEPT ![j] = r.val], wp, Last("CopyShared", i, j, sp[i], Empty))

\* SharedPtr<T> sj(std::move(si));
MoveShared(i, j) ==
    /\ ~fault /\ i # j /\ FreshS(j)
    /\ \E r \in SharedPtrMove(Heap, sp[i]) :
           Done(r, [sp EXCEPT ![i] = r.src, ![j] = r.val], wp,
                Last("MoveShared", i, j, sp[i], Empty))

\* SharedPtr<Base> sj(si);  si a SharedPtr<Derived>
ConvCopyShared(i, j) ==
    /\ ~fault /\ i # j /\ FreshS(j)
    /\ \E r \in SharedPtrConvCopy(Heap, sp[i]) :
           Done(r, [sp EXCEPT ![j] = r.val], wp,
                Last("ConvCopyShared", i, j, sp[i], Empty))

\* SharedPtr<Base> sj(std::move(si));  si a SharedPtr<Derived>
ConvMoveShared(i, j) ==
    /\ ~fault /\ i # j /\ FreshS(j)
    /\ \E r \in SharedPtrConvMove(Heap, sp[i]) :
           Done(r, [sp EXCEPT ![i] = r.src, ![j] = r.val], wp,
                Last("ConvMoveShared", i, j, sp[i], Empty))

\* si goes out of scope
DestroyShared(i) ==
    /\ ~fault
    /\ \E G \in SharedPtrDtor(Heap, sp[i]) :
           Done([heap |-> G], [sp EXCEPT ![i] = Empty], wp,
                Last("DestroyShared", i, 0, Empty, sp[i]))

\* si.swap(sj);
SwapShared(i, j) ==
    /\ ~fault
    /\ LET sw == SharedPtrSwap(sp[i], sp[j])
       IN  Done([heap |-> Heap], [sp EXCEPT ![i] = sw[1], ![j] = sw[2]], wp,
                Last("SwapShared", j, i, sp[j], sp[i]))

\* sj = si;  i = j is the self-assignment
AssignShared(i, j) ==
    /\ ~fault
    /\ \E r \in SharedPtrAssignCopy(Heap, sp[j], sp[i], i = j) :
           Done(r, [sp EXCEPT ![i] = r.src, ![j] = r.val], wp,
                Last("AssignShared", i, j, sp[i], sp[j]))

\* sj = std::move(si);
MoveAssignShared(i, j) ==
    /\ ~fault
    /\ \E r \in SharedPtrAssignMove(Heap, sp[j], sp[i], i = j) :
           Done(r, [sp EXCEPT ![i] = r.src, ![j] = r.val], wp,
                Last("MoveAssignShared", i, j, sp[i], sp[j]))

\* sj = si;  sj a SharedPtr<Base>, si a SharedPtr<Derived>
ConvAssignShared(i, j) ==
    /\ ~fault /\ i # j
    /\ \E r \in SharedPtrAssignConvCopy(Heap, sp[j], sp[i]) :
           Done(r, [sp EXCEPT ![i] = r.src, ![j] = r.val], wp,
                Last("ConvAssignShared", i, j, sp[i], sp[j]))

\* sj = std::move(si);  sj a SharedPtr<Base>, si a SharedPtr<Derived>
ConvMoveAssignShared(i, j) ==
    /\ ~fault /\ i # j
    /\ \E r \in SharedPtrAssignConvMove(Heap, sp[j], sp[i]) :
           Done(r, [sp EXCEPT ![i] = r.src, ![j] = r.val], wp,
                Last("ConvMoveAssignShared", i, j, sp[i], sp[j]))

\* si.reset();
ResetShared(i) ==
    /\ ~fault
    /\ \E r \in SharedPtrReset(Heap, sp[i]) :
           Done(r, [sp EXCEPT ![i] = r.val], wp, Last("ResetShared", 0, i, Empty, sp[i]))

\* si.reset(p);
ResetPtrShared(i, isNull, e) ==
    /\ ~fault /\ HasFree(Heap)
    /\ LET p == IF isNull THEN NullPtr ELSE PtrTo(NewBlock(Heap))
       IN  \E r \in SharedPtrResetPtr(Heap, sp[i], p, e) :
               Done(r, [sp EXCEPT ![i] = r.val], wp,
                    Last("ResetPtrShared", 0, i, Empty, sp[i]))

\* WeakPtr<T> w;
WeakDefault(j) ==
    /\ ~fault /\ FreshW(j)
    /\ Done([heap |-> Heap], sp, [wp EXCEPT ![j] = Empty],
            Last("WeakDefault", 0, j, Empty, Empty))

\* WeakPtr<T> wj(si);
WeakOfShared(i, j) ==
    /\ ~fault /\ FreshW(j)
    /\ \E r \in WeakPtrFromShared(Heap, sp[i]) :
           Done(r, sp, [wp EXCEPT ![j] = r.val], Last("WeakOfShared", i, j, sp[i], Empty))

\* WeakPtr<T> wj(std::move(si));
WeakOfSharedMove(i, j) ==
    /\ ~fault /\ FreshW(j)
    /\ \E r \in WeakPtrFromSharedMove(Heap, sp[i]) :
           Done(r, [sp EXCEPT ![i] = r.src], [wp EXCEPT ![j] = r.val],
                Last("WeakOfSharedMove", i, j, sp[i], Empty))

\* WeakPtr<Base> wj(si);  si a SharedPtr<Derived>
WeakOfSharedConv(i, j) ==
    /\ ~fault /\ FreshW(j)
    /\ \E r \in WeakPtrFromSharedConv(Heap, sp[i]) :
           Done(r, sp, [wp EXCEPT ![j] = r.val],
                Last("WeakOfSharedConv", i, j, sp[i], Empty))

\* WeakPtr<Base> wj(std::move(si));  si a SharedPtr<Derived>
WeakOfSharedConvMove(i, j) ==
    /\ ~fault /\ FreshW(j)
    /\ \E r \in WeakPtrFromSharedConvMove(Heap, sp[i]) :
           Done(r, [sp EXCEPT ![i] = r.src], [wp EXCEPT ![j] = r.val],
                Last("WeakOfSharedConvMove", i, j, sp[i], Empty))

\* WeakPtr<T> wj(wi);
CopyWeak(i, j) ==
    /\ ~fault /\ i # j /\ FreshW(j)
    /\ \E r \in WeakPtrCopy(Heap, wp[i]) :
           Done(r, sp, [wp EXCEPT ![j] = r.val], Last("CopyWeak", i, j, wp[i], Empty))

\* WeakPtr<T> wj(std::move(wi));
MoveWeak(i, j) ==
    /\ ~fault /\ i # j /\ FreshW(j)
    /\ \E r \in WeakPtrMove(Heap, wp[i]) :
           Done(r, sp, [wp EXCEPT ![i] = r.src, ![j] = r.val],
                Last("MoveWeak", i, j, wp[i], Empty))

\* WeakPtr<Base> wj(wi);  wi a WeakPtr<Derived>
ConvCopyWeak(i, j) ==
    /\ ~fault /\ i # j /\ FreshW(j)
    /\ \E r \in WeakPtrConvCopy(Heap, wp[i]) :
           Done(r, sp, [wp EXCEPT ![j] = r.val], Last("ConvCopyWeak", i, j, wp[i], Empty))

\* WeakPtr<Base> wj(std::move(wi));  wi a WeakPtr<Derived>
ConvMoveWeak(i, j) ==
    /\ ~fault /\ i # j /\ FreshW(j)
    /\ \E r \in WeakPtrConvMove(Heap, wp[i]) :
           Done(r, sp, [wp EXCEPT ![i] = r.src, ![j] = r.val],
                Last("ConvMoveWeak", i, j, wp[i], Empty))

\* wi goes out of scope
DestroyWeak(i) ==
    /\ ~fault
    /\ \E G \in WeakPtrDtor(Heap, wp[i]) :
           Done([heap |-> G], sp, [wp EXCEPT ![i] = Empty],
                Last("DestroyWeak", i, 0, Empty, wp[i]))

\* wi.swap(wj);
SwapWeak(i, j) ==
    /\ ~fault
    /\ LET sw == WeakPtrSwap(wp[i], wp[j])
       IN  Done([heap |-> Heap], sp, [wp EXCEPT ![i] = sw[1], ![j] = sw[2]],
                Last("SwapWeak", j, i, wp[j], wp[i]))

\* wj = wi;
AssignWeak(i, j) ==
    /\ ~fault
    /\ \E r \in WeakPtrAssignCopy(Heap, wp[j], wp[i]) :
           Done(r, sp, [wp EXCEPT ![i] = r.src, ![j] = r.val],
                Last("AssignWeak", i, j, wp[i], wp[j]))

\* wj = std::move(wi);
MoveAssignWeak(i, j) ==
    /\ ~fault
    /\ \E r \in WeakPtrAssignMove(Heap, wp[j], wp[i], i = j) :
           Done(r, sp, [wp EXCEPT ![i] = r.src, ![j] = r.val],
                Last("MoveAssignWeak", i, j, wp[i], wp[j]))

\* wj = si;  conv: si is a SharedPtr<Derived>, wj a WeakPtr<Base>
AssignWeakShared(i, j, conv) ==
    /\ ~fault
    /\ \E r \in WeakPtrAssignShared(Heap, wp[j], sp[i], conv) :
           Done(r, sp, [wp EXCEPT ![j] = r.val],
                Last("AssignWeakShared", i, j, sp[i], wp[j]))

\* wj = std::move(si);
AssignWeakSharedMove(i, j, conv) ==
    /\ ~fault
    /\ \E r \in WeakPtrAssignSharedMove(Heap, wp[j], sp[i], conv) :
           Done(r, [sp EXCEPT ![i] = r.src], [wp EXCEPT ![j] = r.val],
                Last("AssignWeakSharedMove", i, j, sp[i], wp[j]))

\* wj = wi;  wj a WeakPtr<Base>, wi a WeakPtr<Derived>
ConvAssignWeak(i, j) ==
    /\ ~fault /\ i # j
    /\ \E r \in WeakPtrAssignConvCopy(Heap, wp[j], wp[i]) :
           Done(r, sp, [wp EXCEPT ![i] = r.src, ![j] = r.val],
                Last("ConvAssignWeak", i, j, wp[i], wp[j]))

\* wj = std::move(wi);  wj a WeakPtr<Base>, wi a WeakPtr<Derived>
ConvMoveAssignWeak(i, j) ==
    /\ ~fault /\ i # j
    /\ \E r \in WeakPtrAssignConvMove(Heap, wp[j], wp[i]) :
           Done(r, sp, [wp EXCEPT ![i] = r.src, ![j] = r.val],
                Last("ConvMoveAssignWeak", i, j, wp[i], wp[j]))

\* A block that has seen MaxCleanups cleanups is not promoted again.
MayLock(w) ==
    IF w.cb = Null THEN TRUE
    ELSE IF shared_cnt[w.cb] > 0 THEN TRUE ELSE Cleanups(w.cb) < MaxCleanups

\* auto sj = wi.lock();
Lock(i, j) ==
    /\ ~fault /\ FreshS(j) /\ MayLock(wp[i])
    /\ \E r \in WeakPtrLock(Heap, wp[i]) :
           Done(r, [sp EXCEPT ![j] = r.val], wp, Last("Lock", i, j, wp[i], Empty))

\* auto sj = obj.shared_from_this();  obj the living payload of block b
SharedFromThisOp(b, j) ==
    /\ ~fault /\ FreshS(j)
    /\ alloc[b] = "live" /\ esft[b] /\ payload[b] = "alive"
    /\ \E r \in SharedFromThis(Heap, wptr[b]) :
           Done(r, [sp EXCEPT ![j] = r.val], wp,
                Last("SharedFromThisOp", b, j, wptr[b], Empty))

\* T obj; auto sj = obj.shared_from_this();  obj an automatic object, owned by no pointer
SharedFromThisAuto(j) ==
    /\ ~fault /\ FreshS(j)
    /\ \E r \in SharedFromThis(Heap, Empty) :
           Done(r, [sp EXCEPT ![j] = r.val], wp,
                Last("SharedFromThisAuto", 0, j, Empty, Empty))

Next ==
    \/ \E j \in StrongIds : SharedDefault(j)
    \/ \E j \in StrongIds, n \in BOOLEAN, e \in BOOLEAN : Adopt(j, n, e)
    \/ \E j \in StrongIds, e \in BOOLEAN : AllocShared(j, e)
    \/ \E j \in StrongIds, e \in BOOLEAN : MkShared(j, e)
    \/ \E i, j \in StrongIds : CopyShared(i, j)
    \/ \E i, j \in StrongIds : MoveShared(i, j)
    \/ \E i, j \in StrongIds : ConvCopyShared(i, j)
    \/ \E i, j \in StrongIds : ConvMoveShared(i, j)
    \/ \E i \in StrongIds : DestroyShared(i)
    \/ \E i, j \in StrongIds : SwapShared(i, j)
    \/ \E i, j \in StrongIds : AssignShared(i, j)
    \/ \E i, j \in StrongIds : MoveAssignShared(i, j)
    \/ \E i, j \in StrongIds : ConvAssignShared(i, j)
    \/ \E i, j \in StrongIds : ConvMoveAssignShared(i, j)
    \/ \E i \in StrongIds : ResetShared(i)
    \/ \E i \in StrongIds, n \in BOOLEAN, e \in BOOLEAN : ResetPtrShared(i, n, e)
    \/ \E j \in WeakIds : WeakDefault(j)
    \/ \E i \in StrongIds, j \in WeakIds : WeakOfShared(i, j)
    \/ \E i \in StrongIds, j \in WeakIds : WeakOfSharedMove(i, j)
    \/ \E i \in StrongIds, j \in WeakIds : WeakOfSharedConv(i, j)
    \/ \E i \in StrongIds, j \in WeakIds : WeakOfSharedConvMove(i, j)
    \/ \E i, j \in WeakIds : CopyWeak(i, j)
    \/ \E i, j \in WeakIds : MoveWeak(i, j)
    \/ \E i, j \in WeakIds : ConvCopyWeak(i, j)
    \/ \E i, j \in WeakIds : ConvMoveWeak(i, j)
    \/ \E i \in WeakIds : DestroyWeak(i)
    \/ \E i, j \in WeakIds : SwapWeak(i, j)
    \/ \E i, j \in WeakIds : AssignWeak(i, j)
    \/ \E i, j \in WeakIds : MoveAssignWeak(i, j)
    \/ \E i \in StrongIds, j \in WeakIds, c \in BOOLEAN : AssignWeakShared(i, j, c)
    \/ \E i \in StrongIds, j \in WeakIds, c \in BOOLEAN : AssignWeakSharedMove(i, j, c)
    \/ \E i, j \in WeakIds : ConvAssignWeak(i, j)
    \/ \E i, j \in WeakIds : ConvMoveAssignWeak(i, j)
    \/ \E i \in WeakIds, j \in StrongIds : Lock(i, j)
    \/ \E b \in Blocks, j \in StrongIds : SharedFromThisOp(b, j)
    \/ \E j \in StrongIds : SharedFromThisAuto(j)

Spec == Init /\ [][Next]_vars

\* The same program, with a record kept of the named operations.  ConvOps are
\* the converting constructors, from a pointer to Derived to a pointer to Base.
ConvOps ==
    {"ConvCopyShared", "ConvMoveShared",
     "WeakOfSharedConv", "WeakOfSharedConvMove", "ConvCopyWeak", "ConvMoveWeak"}
SpecLock == InitWatching({"Lock"}) /\ [][Next]_vars
SpecConv == InitWatching(ConvOps) /\ [][Next]_vars
SpecThis == InitWatching({"SharedFromThisOp", "SharedFromThisAuto"}) /\ [][Next]_vars
MoveOps == {"MoveShared", "ConvMoveShared", "MoveAssignShared", "ConvMoveAssignShared"}
SpecMove == InitWatching(MoveOps \cup {Brief}) /\ [][Next]_vars
WeakMoveOps == {"MoveWeak", "ConvMoveWeak", "MoveAssignWeak", "ConvMoveAssignWeak"}
SpecWeakMove == InitWatching(WeakMoveOps \cup {Brief}) /\ [][Next]_vars
WeakCopyOps == {"CopyWeak", "AssignWeak", "WeakOfShared", "WeakOfSharedMove"}
SpecWeakCopy == InitWatching(WeakCopyOps \cup {Brief}) /\ [][Next]_vars
ResetOps == {"ResetShared", "ResetPtrShared"}
SpecReset == InitWatching(ResetOps \cup {Brief}) /\ [][Next]_vars
SpecCopy == InitWatching({"CopyShared", "AssignShared"}) /\ [][Next]_vars

----------------------------------------------------------------------------
\* The handles that exist: the program's variables and the weak pointers
\* embedded in living payloads.

StrongOn(b) == {i \in StrongIds : sp[i].cb = b}
WeakOn(b) == {i \in WeakIds : wp[i].cb = b}
EmbeddedOn(b) == {c \in Blocks : payload[c] = "alive" /\ esft[c] /\ wptr[c].cb = b}

TypeOK ==
    /\ \A b \in Blocks : shared_cnt[b] \in Nat /\ weak_cnt[b] \in Nat
    /\ \A b \in Blocks : alloc[b] \in {"unused", "live", "freed"}

----------------------------------------------------------------------------
\* The calls logged on a block.

Calls(b, e) == {k \in 1..Len(log[b]) : log[b][k].ev = e}
Created(b) == alloc[b] # "unused"

\* C1 (count accuracy): while the program runs, shared_cnt of every block that
\* has not been deallocated is the number of SharedPtr handles referencing it
\* and weak_cnt is the number of WeakPtr handles referencing it, whatever
\* operations were executed.
CountAccuracy ==
    ~fault =>
        \A b \in Blocks :
            alloc[b] = "live" =>
                /\ shared_cnt[b] = Cardinality(StrongOn(b))
                /\ weak_cnt[b] = Cardinality(WeakOn(b)) + Cardinality(EmbeddedOn(b))

\* Two owners and two observers share a block whose counts say so.
CountAccuracyWitness ==
    \E b \in Blocks :
        /\ ~fault /\ alloc[b] = "live"
        /\ Cardinality(StrongOn(b)) = 2 /\ shared_cnt[b] = 2
        /\ Cardinality(WeakOn(b)) = 2 /\ weak_cnt[b] >= 2

HandlesOn(b) == Cardinality(StrongOn(b)) + Cardinality(WeakOn(b)) + Cardinality(EmbeddedOn(b))

\* C2 (payload cleanup exactly once): a block that no SharedPtr references has
\* had useDeleter and Destroy called on it exactly once each, and a block that a
\* SharedPtr references has had neither called; holding in every state, this
\* puts the cleanup in the step that takes the last SharedPtr off the block.
PayloadCleanupExactlyOnce ==
    ~fault =>
        \A b \in Blocks :
            Created(b) =>
                LET n == IF StrongOn(b) = {} THEN 1 ELSE 0
                IN  /\ Cardinality(Calls(b, "useDeleter")) = n
                    /\ Cardinality(Calls(b, "Destroy")) = n

\* C3 (storage reclaimed exactly once): Deallocate has been called on a block
\* once if no handle references it and never if one does, and each call found
\* both counts at zero.
StorageReclaimedExactlyOnce ==
    ~fault =>
        \A b \in Blocks :
            Created(b) =>
                /\ Cardinality(Calls(b, "Deallocate")) = IF HandlesOn(b) = 0 THEN 1 ELSE 0
                /\ \A k \in Calls(b, "Deallocate") : log[b][k].refs = 0

\* C4 (cleanup before deallocation): every call of Deallocate on a block found
\* both counts at zero and came after a call of useDeleter and a later call of
\* Destroy on that block.
CleanupBeforeDeallocation ==
    \A b \in Blocks :
        \A k \in Calls(b, "Deallocate") :
            /\ log[b][k].refs = 0
            /\ \E i \in Calls(b, "useDeleter"), j \in Calls(b, "Destroy") : i < j /\ j < k

----------------------------------------------------------------------------
\* Properties of single operations, stated on the record of the last one.

SameCounts == shared_cnt = last.sc0 /\ weak_cnt = last.wc0
NothingLogged == \A b \in Blocks : Len(log[b]) = last.ln0[b]
CleanedUpNow(b) == \E k \in Calls(b, "useDeleter") : k > last.ln0[b]

\* C5 (lock on an expired weak pointer): when lock() is called on a WeakPtr
\* whose block has been cleaned up and has shared_cnt 0 (expired() is true), the
\* call returns an empty SharedPtr and shared_cnt is still 0.
LockExpiredYieldsEmpty ==
    (/\ last.op = "Lock" /\ last.cb # Null
     /\ last.al0[last.cb] = "live" /\ last.sc0[last.cb] = 0
     /\ Calls(last.cb, "useDeleter") # {})
        => /\ ~fault
           /\ sp[last.dst] = Empty
           /\ shared_cnt[last.cb] = 0

\* C6 (promotion of a live weak pointer): when lock() is called on a WeakPtr
\* with expired() false, the call returns a non-empty SharedPtr on the block and
\* the payload of the WeakPtr, shared_cnt of the block is one more than before
\* and no weak_cnt has changed.
LockLivePromotes ==
    (last.op = "Lock" /\ last.cb # Null /\ last.sc0[last.cb] > 0)
        => /\ ~fault
           /\ sp[last.dst] # Empty
           /\ sp[last.dst] = Handle(last.cb, last.p0)
           /\ UseCount(sp[last.dst]) = last.sc0[last.cb] + 1
           /\ weak_cnt = last.wc0
LockLivePromotesWitness ==
    /\ last.op = "Lock" /\ last.cb # Null /\ last.sc0[last.cb] = 1 /\ ~fault
    /\ sp[last.dst].cb = last.cb /\ shared_cnt[last.cb] = 2
    /\ wp[last.src].cb = last.cb

\* C7 (conversion never creates a control block): a converting construction (by
\* copy or by move, of a SharedPtr<Base> or a WeakPtr<Base>) that has returned
\* leaves the new pointer on the block and the payload of its source, leaves
\* the set of control blocks as it was, and a source that still references the
\* block reports the use_count() that the result reports.
ConvResult ==
    IF last.op \in {"ConvCopyShared", "ConvMoveShared"} THEN sp[last.dst] ELSE wp[last.dst]
ConvSource ==
    IF last.op \in {"ConvCopyWeak", "ConvMoveWeak"} THEN wp[last.src] ELSE sp[last.src]
ConversionSharesBlock ==
    (last.op \in ConvOps /\ ~fault)
        => /\ ConvResult = Handle(last.cb, last.p0)
           /\ \A b \in Blocks : (alloc[b] = "unused") <=> (last.al0[b] = "unused")
           /\ ConvSource.cb # Null
                 => ConvSource.cb = ConvResult.cb /\ UseCount(ConvSource) = UseCount(ConvResult)
ConversionSharesBlockWitness ==
    /\ last.op = "WeakOfSharedConv" /\ last.cb # Null /\ ~fault
    /\ wp[last.dst].cb = last.cb /\ sp[last.src].cb = last.cb
    /\ alloc[last.cb] = "live" /\ weak_cnt[last.cb] >= 1

\* C8 (shared_from_this after adoption): called on a living object that a
\* SharedPtr adopted through the raw-pointer constructor, shared_from_this()
\* returns a SharedPtr on the block and the object of the adopting pointer, and
\* shared_cnt of the block is one more than before.
SelfObservationAdopted ==
    (last.op = "SharedFromThisOp" /\ kind[last.src] = "regular")
        => /\ ~fault
           /\ sp[last.dst] = Handle(last.src, cbptr[last.src])
           /\ UseCount(sp[last.dst]) = last.sc0[last.src] + 1
SelfObservationAdoptedWitness ==
    /\ last.op = "SharedFromThisOp" /\ kind[last.src] = "regular" /\ ~fault
    /\ last.sc0[last.src] = 1 /\ shared_cnt[last.src] = 2
    /\ Cardinality(StrongOn(last.src)) = 2

\* C9 (shared_from_this without adoption): called on an automatic object or on
\* an object created by makeShared / allocateShared, shared_from_this() finds
\* the embedded WeakPtr empty, returns an empty SharedPtr and changes no count.
SelfObservationUnadopted ==
    (\/ last.op = "SharedFromThisAuto"
     \/ last.op = "SharedFromThisOp" /\ kind[last.src] = "makeshared")
        => /\ last.cb = Null
           /\ ~fault
           /\ sp[last.dst] = Empty
           /\ SameCounts

\* C10 (strong copy): copy construction from a non-empty SharedPtr puts the
\* new pointer on the source's block and adds one to its shared_cnt; copy
\* assignment between pointers on different blocks also takes one from the
\* shared_cnt of the target's former block and cleans it up if that leaves zero;
\* self-assignment changes no count and cleans nothing up; a copy of an empty
\* SharedPtr is empty, and only the count of a block the target gave up changes.
\* (Of an assignment, the clauses speak of one that has returned: the cleanup of
\* the former block is where it may stop.)
StrongCopy ==
    /\ (last.op = "CopyShared" /\ last.cb # Null)
          => /\ ~fault
             /\ sp[last.dst] = Handle(last.cb, last.p0)
             /\ sp[last.src] = Handle(last.cb, last.p0)
             /\ shared_cnt = [last.sc0 EXCEPT ![last.cb] = @ + 1]
             /\ weak_cnt = last.wc0 /\ NothingLogged
    /\ (last.op = "CopyShared" /\ last.cb = Null)
          => ~fault /\ sp[last.dst] = Empty /\ SameCounts /\ NothingLogged
    /\ (last.op = "AssignShared" /\ last.src = last.dst)
          => ~fault /\ sp[last.dst] = Handle(last.cb, last.p0) /\ SameCounts /\ NothingLogged
    /\ (/\ last.op = "AssignShared" /\ last.src # last.dst /\ ~fault
        /\ last.cb # Null /\ last.old # Null /\ last.old # last.cb)
          => /\ sp[last.dst] = Handle(last.cb, last.p0)
             /\ shared_cnt[last.cb] = last.sc0[last.cb] + 1
             /\ shared_cnt[last.old] = last.sc0[last.old] - 1
             /\ IF last.sc0[last.old] = 1 THEN CleanedUpNow(last.old) ELSE NothingLogged
    /\ (last.op = "AssignShared" /\ last.src # last.dst /\ ~fault /\ last.cb = Null)
          => /\ sp[last.dst] = Empty
             /\ \A b \in Blocks \ {last.old} : shared_cnt[b] = last.sc0[b]
StrongCopyWitness ==
    /\ last.op = "AssignShared" /\ last.src # last.dst /\ ~fault
    /\ last.cb # Null /\ last.old # Null /\ last.old # last.cb
    /\ last.sc0[last.old] = 1 /\ shared_cnt[last.old] = 0 /\ CleanedUpNow(last.old)
    /\ sp[last.dst].cb = last.cb /\ shared_cnt[last.cb] = 2

----------------------------------------------------------------------------
\* Properties of single operations, stated on the steps themselves: unprimed
\* variables are the state the operation found, primed ones the state it left.

SameCountsStep == shared_cnt' = shared_cnt /\ weak_cnt' = weak_cnt
CleanedUpInStep(b) ==
    \E k \in (Len(log[b]) + 1)..Len(log'[b]) : log'[b][k].ev = "useDeleter"

\* C11 (strong move): move construction of a SharedPtr (same type or from
\* Derived) changes no count, puts the new pointer on the block and the payload
\* of the source and leaves the source empty; a move assignment that has
\* returned does the same for its target and takes exactly one from shared_cnt
\* of the block its target referenced before, every other shared_cnt and the
\* weak_cnt of every other block staying as they were (weak_cnt of the former
\* block too, unless its payload was cleaned up in this step); moving a
\* pointer onto itself changes nothing.
StrongMoveStep(i, j) ==
    /\ (MoveShared(i, j) \/ ConvMoveShared(i, j))
          => /\ ~fault' /\ SameCountsStep /\ log' = log
             /\ sp'[j] = sp[i] /\ sp'[i] = Empty
    /\ (i = j /\ MoveAssignShared(i, j))
          => ~fault' /\ sp' = sp /\ SameCountsStep /\ log' = log
    /\ (i # j /\ (MoveAssignShared(i, j) \/ ConvMoveAssignShared(i, j)) /\ ~fault')
          => /\ sp'[j] = sp[i] /\ sp'[i] = Empty
             /\ \A b \in Blocks :
                    /\ shared_cnt'[b] = shared_cnt[b] - (IF b = sp[j].cb THEN 1 ELSE 0)
                    /\ (b # sp[j].cb \/ ~CleanedUpInStep(b)) => weak_cnt'[b] = weak_cnt[b]
             /\ sp[j].cb = Null => log' = log
StrongMove == [][last'.op \in MoveOps => \A i, j \in StrongIds : StrongMoveStep(i, j)]_vars
StrongMoveWitness ==
    /\ last.op = "MoveAssignShared" /\ ~fault
    /\ \E i, j \in StrongIds, b \in Blocks :
           /\ i # j /\ sp[i] = Empty /\ sp[j].cb \notin {Null, b}
           /\ shared_cnt[sp[j].cb] = 1
           /\ shared_cnt[b] = 0 /\ Calls(b, "useDeleter") # {}

\* C12 (weak move): moving a non-empty WeakPtr into a new or an existing
\* WeakPtr (of the same type, or from WeakPtr<Derived> into WeakPtr<Base>)
\* leaves weak_cnt of the source's block as it was (one less if the target of
\* the assignment was on that block), puts the target on the source's block and
\* payload, and leaves the source empty.
WeakMoveStep(i, j) ==
    /\ (wp[i].cb # Null /\ (MoveWeak(i, j) \/ ConvMoveWeak(i, j)))
          => /\ ~fault' /\ SameCountsStep
             /\ wp'[j] = wp[i] /\ wp'[i] = Empty
    /\ (wp[i].cb # Null /\ i # j
         /\ (MoveAssignWeak(i, j) \/ ConvMoveAssignWeak(i, j)) /\ ~fault')
          => /\ wp'[j] = wp[i] /\ wp'[i] = Empty
             /\ weak_cnt'[wp[i].cb] =
                    weak_cnt[wp[i].cb] - (IF wp[j].cb = wp[i].cb THEN 1 ELSE 0)
WeakMove == [][last'.op \in WeakMoveOps => \A i, j \in WeakIds : WeakMoveStep(i, j)]_vars

\* C13 (no resurrection): no step takes a control block that has not been
\* deallocated from shared_cnt = 0 to shared_cnt >= 1.
NoResurrection ==
    [][\A b \in Blocks :
          (alloc[b] = "live" /\ shared_cnt[b] = 0) => shared_cnt'[b] = 0]_vars

\* C14 (drained implies cleaned up): between operations, a control block whose
\* shared_cnt is 0 has had useDeleter and then Destroy called on it.
DrainedImpliesCleanedUp ==
    ~fault =>
        \A b \in Blocks :
            (Created(b) /\ shared_cnt[b] = 0)
                => \E i \in Calls(b, "useDeleter"), j \in Calls(b, "Destroy") : i < j

\* C15 (no use after deallocation): a call of Deallocate on a control block is
\* the last thing done with the block: no access to its counts and no call of
\* useDeleter, Destroy or Deallocate on it comes later.
NoUseAfterDeallocation ==
    \A b \in Blocks :
        \A k \in Calls(b, "Deallocate") : k = Len(log[b])

\* C16 (weak copy from an empty source): copy construction or copy assignment
\* of a WeakPtr from an empty WeakPtr, and construction of a WeakPtr from an
\* empty SharedPtr (by copy or by move), returns, leaves the target empty and
\* changes no count (but that of the block an assigned target gives up).
WeakFromEmptyResult(j) ==
    /\ ~fault'
    /\ wp'[j] = Empty
    /\ shared_cnt' = shared_cnt
    /\ \A b \in Blocks \ {wp[j].cb} : weak_cnt'[b] = weak_cnt[b]
WeakCopyFromEmpty ==
    [][last'.op \in WeakCopyOps =>
          /\ \A i, j \in WeakIds :
                 (wp[i] = Empty /\ (CopyWeak(i, j) \/ AssignWeak(i, j)))
                     => WeakFromEmptyResult(j)
          /\ \A i \in StrongIds, j \in WeakIds :
                 (sp[i] = Empty /\ (WeakOfShared(i, j) \/ WeakOfSharedMove(i, j)))
                     => WeakFromEmptyResult(j)]_vars

\* C17 (null together): between operations every SharedPtr has cb and ptr both
\* null or both non-null.
NullTogether ==
    ~fault => \A i \in StrongIds : (sp[i].cb = Null) <=> (Get(sp[i]) = NullPtr)

\* C18 (variant-specific reclamation): between operations, a ControlBlockRegular
\* whose shared_cnt is 0 has had its deleter invoked exactly once and its
\* payload is gone; a ControlBlockMakeShared whose shared_cnt is 0 has had its
\* payload destructed in place exactly once, and Deallocate has been called on
\* it at most once, with both counts at zero, its storage being released
\* exactly when that call has been made.
VariantReclamation ==
    ~fault =>
        \A b \in Blocks :
            (Created(b) /\ shared_cnt[b] = 0) =>
                /\ kind[b] = "regular"
                      => /\ Cardinality(Calls(b, "useDeleter")) = 1
                         /\ payload[b] # "alive"
                /\ kind[b] = "makeshared"
                      => /\ Cardinality(Calls(b, "Destroy")) = 1
                         /\ payload[b] = "destroyed"
                         /\ Cardinality(Calls(b, "Deallocate")) <= 1
                         /\ \A k \in Calls(b, "Deallocate") : log[b][k].refs = 0
                         /\ (alloc[b] = "freed") <=> (Calls(b, "Deallocate") # {})

\* C19 (reset): a reset() that has returned on a non-empty SharedPtr takes one
\* from shared_cnt of its block, calls useDeleter and then Destroy in this step
\* exactly if that leaves 0, and Deallocate exactly if weak_cnt is then 0 as
\* well, leaves the pointer empty and no other block changed; reset() on an
\* empty pointer changes nothing; reset(p) releases in the same way and leaves
\* the pointer on a new block for p with use_count() 1 and no other owner.
CalledInStep(b, e) == {k \in (Len(log[b]) + 1)..Len(log'[b]) : log'[b][k].ev = e}
ReleasedOne(b) ==
    /\ shared_cnt'[b] = shared_cnt[b] - 1
    /\ IF shared_cnt'[b] = 0
       THEN /\ \E k \in CalledInStep(b, "useDeleter"), m \in CalledInStep(b, "Destroy") : k < m
            /\ IF weak_cnt'[b] = 0
               THEN alloc'[b] = "freed" /\ CalledInStep(b, "Deallocate") # {}
               ELSE alloc'[b] = alloc[b] /\ CalledInStep(b, "Deallocate") = {}
       ELSE log'[b] = log[b] /\ alloc'[b] = alloc[b] /\ weak_cnt'[b] = weak_cnt[b]
UntouchedBut(S) ==
    \A c \in Blocks \ S :
        /\ shared_cnt'[c] = shared_cnt[c] /\ weak_cnt'[c] = weak_cnt[c]
        /\ alloc'[c] = alloc[c] /\ log'[c] = log[c] /\ payload'[c] = payload[c]
ResetStep(i) ==
    /\ (ResetShared(i) /\ sp[i].cb = Null)
          => ~fault' /\ sp' = sp /\ UntouchedBut({})
    /\ (ResetShared(i) /\ sp[i].cb # Null /\ ~fault')
          => /\ sp'[i] = Empty
             /\ ReleasedOne(sp[i].cb)
             /\ UntouchedBut({sp[i].cb})
    /\ \A n, e \in BOOLEAN :
          (ResetPtrShared(i, n, e) /\ ~fault')
              => /\ sp[i].cb # Null => ReleasedOne(sp[i].cb)
                 /\ alloc[sp'[i].cb] = "unused" /\ alloc'[sp'[i].cb] = "live"
                 /\ Get(sp'[i]) = (IF n THEN NullPtr ELSE PtrTo(sp'[i].cb))
                 /\ shared_cnt'[sp'[i].cb] = 1
                 /\ \A k \in StrongIds \ {i} : sp'[k] = sp[k] /\ sp'[k].cb # sp'[i].cb
                 /\ UntouchedBut({sp[i].cb, sp'[i].cb})
Reset == [][last'.op \in ResetOps => \A i \in StrongIds : ResetStep(i)]_vars
ResetWitness ==
    /\ last.op = "ResetPtrShared" /\ ~fault
    /\ \E i \in StrongIds, b \in Blocks :
           /\ sp[i].cb \notin {Null, b} /\ shared_cnt[sp[i].cb] = 1
           /\ alloc[b] = "freed" /\ shared_cnt[b] = 0
           /\ Cardinality(Calls(b, "Deallocate")) = 1

====
